---- MODULE Spec2Model ----
(***************************************************************************)
(* A model of boostfs (src/filesystem.h, src/filesystem.cpp), POSIX build: *)
(* the Path value type with its canonicalization-based equality, the       *)
(* directory_iterator and the stack-based remove_all.                      *)
(*                                                                         *)
(* A std::string is a sequence of one-character strings.  Positions are    *)
(* 0-based as in the source; NPOS stands for std::string::npos.            *)
(***************************************************************************)
EXTENDS Integers, Sequences, FiniteSets, TLC

VARIABLES
    cwd,        \* the process working directory, as getcwd reports it
    cwdOK,      \* whether getcwd succeeds
    cA, cB,     \* the operands of canonical / Path::operator==
    cRes,       \* outcome of canonical(cA), or NoRes
    eqRes,      \* outcome of Path(cA) == Path(cB), or NoRes
    dirs,       \* the directories of the host filesystem (nodes)
    files,      \* its non-directory entries (nodes)
    hostDots,   \* whether readdir reports the "." and ".." entries
    handles,    \* every DIR stream opendir returned, by handle number
    its,        \* directory_iterator objects of a client, by slot
    pc,         \* where the call remove_all(argp) stands
    argp,       \* the argument p of remove_all
    dirstack,   \* the frames <<iterator, path>> of remove_all
    moredirs,   \* the subdirectory frames queued by the current pass
    result,     \* what remove_all returned
    exc,        \* what made remove_all throw
    log,        \* history: the unlink and rmdir calls issued, in order
    skipped     \* history: the entries the pseudo-entry test skipped

pathVars == <<cA, cB, cRes, eqRes>>
fsVars == <<dirs, files, hostDots>>
raVars == <<pc, argp, dirstack, moredirs, result, exc, log, skipped>>
vars == <<cwd, cwdOK, cA, cB, cRes, eqRes, dirs, files, hostDots, handles, its,
          pc, argp, dirstack, moredirs, result, exc, log, skipped>>

----------------------------------------------------------------------------
(* Bounds *)

MaxSegs == 4        \* segments of an input path of canonical
MaxPlainSegs == 3    \* segments of the second operand of a comparison
MaxEntries == 3     \* entries of the tree below the directory t
MaxFrames == 4      \* frames the memory of remove_all's stack can hold
MaxHandles == 2     \* DIR streams a client of directory_iterator opens
NumIters == 2       \* directory_iterator objects of that client

----------------------------------------------------------------------------
(* std::string primitives *)

NPOS == -1

At(s, i) == s[i + 1]

\* s.find(c, pos): the least index >= pos holding c
Find(s, c, pos) ==
    LET hits == {i \in 0..(Len(s) - 1) : i >= pos /\ At(s, i) = c}
    IN  IF hits = {} THEN NPOS
        ELSE CHOOSE i \in hits : \A k \in hits : i <= k

\* s.rfind(c, pos): the greatest index <= pos holding c.  pos is a size_t:
\* a negative value here is a wrapped one, beyond every index.
RFind(s, c, pos) ==
    LET lim  == IF pos < 0 THEN Len(s) - 1 ELSE pos
        hits == {i \in 0..(Len(s) - 1) : i <= lim /\ At(s, i) = c}
    IN  IF hits = {} THEN NPOS
        ELSE CHOOSE i \in hits : \A k \in hits : i >= k

\* s.erase(j, cnt): drops min(cnt, size - j) characters from j.  cnt is a
\* size_t: a negative value here is a wrapped one, beyond every length.
Erase(s, j, cnt) ==
    LET k == IF cnt < 0 \/ j + cnt > Len(s) THEN Len(s) - j ELSE cnt
    IN  SubSeq(s, 1, j) \o SubSeq(s, j + k + 1, Len(s))

\* s.rfind('/') of last_slash
last_slash(s) == RFind(s, "/", NPOS)

is_slash(c) == c = "/"

----------------------------------------------------------------------------
(* Path *)

\* Path::operator/
Join(a, b) ==
    IF is_slash(a[Len(a)]) THEN a \o b ELSE a \o <<"/">> \o b

\* Path::filename
filename(s) ==
    LET i == last_slash(s)
    IN  IF i = NPOS THEN s ELSE SubSeq(s, i + 2, Len(s))

\* complete(p): p if absolute, else the working directory joined with p;
\* throws when the working directory cannot be obtained
complete(p, dir, ok) ==
    IF Len(p) > 0 /\ is_slash(p[1]) THEN [kind |-> "ok", s |-> p]
    ELSE IF ~ok THEN [kind |-> "throw", s |-> <<>>]
    ELSE IF p = <<>> THEN [kind |-> "ok", s |-> dir]
    ELSE [kind |-> "ok", s |-> Join(dir, p)]

RECURSIVE CanonLoop(_, _)

\* s.erase(j, cnt); continue;  -- the scan resumes at the same pos.  With
\* cnt = 0 nothing changes and the loop spins forever at pos.
EraseContinue(s, j, cnt, pos) ==
    IF j = NPOS THEN [kind |-> "throw", s |-> s]
    ELSE IF cnt = 0 THEN [kind |-> "hang", s |-> s]
    ELSE CanonLoop(Erase(s, j, cnt), pos)

\* s.erase(j); break;
EraseBreak(s, j) ==
    IF j = NPOS THEN [kind |-> "throw", s |-> s]
    ELSE [kind |-> "ok", s |-> SubSeq(s, 1, j)]

\* the while loop of canonical, entered with the scan position pos0
CanonLoop(s, pos0) ==
    LET pos == Find(s, ".", pos0)
        n   == Len(s)
        j   == RFind(s, "/", pos - 2)
    IN  IF pos = NPOS THEN [kind |-> "ok", s |-> s]
        ELSE IF At(s, pos - 1) = "/" /\ pos < n - 1 /\ At(s, pos + 1) = "/"
            THEN EraseContinue(s, j, pos - j + 1, pos)
        ELSE IF At(s, pos - 1) = "/" /\ pos = n - 1
            THEN EraseBreak(s, j)
        ELSE IF pos < n - 2 /\ At(s, pos - 1) = "/" /\ At(s, pos + 1) = "."
                /\ At(s, pos + 2) = "/"
            THEN EraseContinue(s, j, pos - j + 2, pos)
        ELSE IF pos = n - 2 /\ At(s, pos - 1) = "/" /\ At(s, pos + 1) = "."
            THEN EraseBreak(s, j)
        ELSE CanonLoop(s, pos + 1)

\* canonical(p)
canonical(p, dir, ok) ==
    LET c == complete(p, dir, ok)
    IN  IF c.kind = "throw" THEN c ELSE CanonLoop(c.s, 1)

\* Path::operator==: strcmp of the two canonical forms.  "throw" when either
\* canonical throws, "hang" when either never returns.
PathEq(a, b, dir, ok) ==
    LET ca == canonical(a, dir, ok)
        cb == canonical(b, dir, ok)
    IN  IF ca.kind = "throw" \/ cb.kind = "throw" THEN "throw"
        ELSE IF ca.kind = "hang" \/ cb.kind = "hang" THEN "hang"
        ELSE IF ca.s = cb.s THEN "true" ELSE "false"

----------------------------------------------------------------------------
(* Inputs of the path functions *)

Names == {<<"a">>, <<"b">>}
Dot == <<".">>
DotDot == <<".", ".">>
Segs == Names \cup {Dot, DotDot}

Cwds == {<<"/">>, <<"/", "a">>, <<"/", "a", "/", "b">>}

RECURSIVE JoinSegs(_)
JoinSegs(ss) ==
    IF ss = <<>> THEN <<>>
    ELSE IF Len(ss) = 1 THEN ss[1]
    ELSE ss[1] \o <<"/">> \o JoinSegs(Tail(ss))

SegSeqs(n) == UNION {[1..k -> Segs] : k \in 0..n}

\* absolute and relative spellings of up to n segments
Inputs(n) ==
    {JoinSegs(ss) : ss \in SegSeqs(n)} \cup
    {<<"/">> \o JoinSegs(ss) : ss \in SegSeqs(n)}

\* absolute, dot-free spellings
PlainSeqs(n) == UNION {[1..k -> Names] : k \in 0..n}
PlainAbs(n) == {<<"/">> \o JoinSegs(ss) : ss \in PlainSeqs(n)}

NoRes == [kind |-> "none"]

\* no call of remove_all is under way
NoCall ==
    /\ pc = "none" /\ argp = <<>> /\ dirstack = <<>> /\ moredirs = <<>>
    /\ result = FALSE /\ exc = "none" /\ log = <<>> /\ skipped = {}

----------------------------------------------------------------------------
(* Specification of the path functions *)

InitCanon ==
    /\ cwd \in Cwds
    /\ cwdOK \in BOOLEAN
    /\ cA \in Inputs(MaxSegs)
    /\ cB = <<>>
    /\ cRes = NoRes
    /\ eqRes = NoRes
    /\ dirs = {} /\ files = {} /\ hostDots = TRUE
    /\ handles = <<>> /\ its = <<>>
    /\ NoCall

\* a call canonical(cA)
Canonicalize ==
    /\ cRes = NoRes
    /\ cRes' = canonical(cA, cwd, cwdOK)
    /\ UNCHANGED <<cwd, cwdOK, cA, cB, eqRes, fsVars, handles, its, raVars>>

\* a call Path(cA) == Path(b)
Compare ==
    /\ eqRes = NoRes
    /\ \E b \in PlainAbs(MaxPlainSegs) :
          /\ cB' = b
          /\ eqRes' = [kind |-> PathEq(cA, b, cwd, cwdOK)]
    /\ UNCHANGED <<cwd, cwdOK, cA, cRes, fsVars, handles, its, raVars>>

NextCanon == Canonicalize \/ Compare

SpecCanon == InitCanon /\ [][NextCanon]_vars

----------------------------------------------------------------------------
(* The host filesystem.  A node is the sequence of the names leading to an *)
(* entry from the root; the root is <<>>.                                  *)

Root == <<>>
BadNode == << <<>> >>      \* what a failed path resolution yields

Parent(n) == IF n = Root THEN Root ELSE SubSeq(n, 1, Len(n) - 1)

\* the segments of a path string, split at '/'
RECURSIVE SplitFrom(_, _, _)
SplitFrom(s, i, cur) ==
    IF i > Len(s) THEN (IF cur = <<>> THEN <<>> ELSE <<cur>>)
    ELSE IF s[i] = "/"
        THEN (IF cur = <<>> THEN <<>> ELSE <<cur>>) \o SplitFrom(s, i + 1, <<>>)
    ELSE SplitFrom(s, i + 1, Append(cur, s[i]))

Split(s) == SplitFrom(s, 1, <<>>)

\* path resolution of the host: every component passed through is a directory
RECURSIVE Walk(_, _, _)
Walk(n, segs, ds) ==
    IF segs = <<>> THEN n
    ELSE IF n \notin ds THEN BadNode
    ELSE IF segs[1] = Dot THEN Walk(n, Tail(segs), ds)
    ELSE IF segs[1] = DotDot THEN Walk(Parent(n), Tail(segs), ds)
    ELSE Walk(Append(n, segs[1]), Tail(segs), ds)

Resolve(s) ==
    IF s = <<>> THEN BadNode
    ELSE IF s[1] = "/" THEN Walk(Root, Split(s), dirs)
    ELSE Walk(Walk(Root, Split(cwd), dirs), Split(s), dirs)

\* lstat(p) == 0
exists(s) == Resolve(s) \in dirs \cup files

\* lstat(p) == 0 and S_ISDIR
is_directory(s) == Resolve(s) \in dirs

ChildNodes(n) ==
    {m \in dirs \cup files : Len(m) = Len(n) + 1 /\ SubSeq(m, 1, Len(n)) = n}

\* the names readdir can report for the directory n
Listing(n) ==
    IF n \notin dirs THEN {}
    ELSE {m[Len(m)] : m \in ChildNodes(n)}
         \cup (IF hostDots THEN {Dot, DotDot} ELSE {})

----------------------------------------------------------------------------
(* directory_iterator.  dir is a handle number, 0 for nullptr; dp is       *)
(* NullDp for nullptr, else <<handle, name>>: the dirent the stream of     *)
(* that handle returned.                                                   *)

NullDp == <<>>
NoEntry == <<>>            \* readdir returning nullptr

\* directory_iterator()
ItEnd == [dir |-> 0, dp |-> NullDp, p |-> <<>>]

\* what the next readdir on handle h can return
ReadChoices(hs, h) ==
    LET rest == Listing(hs[h].node) \ hs[h].seen
    IN  IF rest = {} THEN {NoEntry} ELSE rest

IncrChoices(it, hs) == IF it.dir = 0 THEN {NoEntry} ELSE ReadChoices(hs, it.dir)

closedir(hs, h) == [hs EXCEPT ![h].closes = @ + 1]

\* directory_iterator::operator++, readdir returning e
ItIncr(it, hs, e) ==
    IF it.dir = 0 THEN [it |-> it, hs |-> hs]
    ELSE IF e = NoEntry
        THEN [it |-> [it EXCEPT !.dp = NullDp, !.dir = 0],
              hs |-> closedir(hs, it.dir)]
    ELSE [it |-> [it EXCEPT !.dp = <<it.dir, e>>],
          hs |-> [hs EXCEPT ![it.dir].seen = @ \cup {e}]]

\* opendir(p) succeeding
opendir(hs, s) == Append(hs, [node |-> Resolve(s), seen |-> {}, closes |-> 0])

OpenChoices(s) ==
    LET l == Listing(Resolve(s)) IN IF l = {} THEN {NoEntry} ELSE l

\* directory_iterator(p) with opendir succeeding: open, then ++*this
ItOpen(s, hs, e) ==
    ItIncr([dir |-> Len(hs) + 1, dp |-> NullDp, p |-> s], opendir(hs, s), e)

\* directory_iterator(directory_iterator&&): the new object and what is
\* left of the source
ItMoveCtor(src) ==
    [dst |-> src, src |-> [src EXCEPT !.dir = 0, !.p = <<>>]]

\* operator=(directory_iterator&&): the fields of the target are overwritten
ItMoveAssign(dst, src) ==
    [dst |-> [dir |-> src.dir, dp |-> src.dp, p |-> src.p],
     src |-> [src EXCEPT !.dir = 0, !.p = <<>>]]

\* ~directory_iterator
ItDtor(it, hs) == IF it.dir # 0 THEN closedir(hs, it.dir) ELSE hs

\* operator*
ItDeref(it) == Join(it.p, it.dp[2])

\* directory_iterator::operator==, with && and || evaluated left to right
ItEq(a, b, dir, ok) ==
    IF a.dir # b.dir \/ a.dp # b.dp THEN "false"
    ELSE LET r == PathEq(a.p, b.p, dir, ok)
         IN  IF r \in {"throw", "hang", "true"} THEN r
             ELSE IF a.dir = 0 /\ a.dp = NullDp THEN "true" ELSE "false"

----------------------------------------------------------------------------
(* The trees the filesystem starts with: below the root, a directory h     *)
(* holding a file a, and the entry t with up to MaxEntries entries below.  *)

EntryNames == {<<"a">>, <<".", "a">>, <<".", ".", ".">>}

tNode == << <<"t">> >>
hNode == << <<"h">> >>
haNode == << <<"h">>, <<"a">> >>

EmptyTree == [d |-> {tNode}, f |-> {}]

\* the entries that can be added to the tree T
FreeSlots(T) ==
    {Append(n, x) : n \in T.d, x \in EntryNames} \ (T.d \cup T.f)

\* the trees one more entry, a directory or a file, makes of the tree T
Grow(T) ==
    {[d |-> T.d \cup {m}, f |-> T.f] : m \in FreeSlots(T)}
    \cup {[d |-> T.d, f |-> T.f \cup {m}] : m \in FreeSlots(T)}

RECURSIVE TreesUpTo(_)
TreesUpTo(k) ==
    IF k = 0 THEN {EmptyTree}
    ELSE LET prev == TreesUpTo(k - 1)
         IN  prev \cup UNION {Grow(T) : T \in prev}

FsCwds == {<<"/">>, <<"/", "h">>}

InitFs(trees) ==
    /\ cwd \in FsCwds
    /\ cwdOK \in BOOLEAN
    /\ hostDots \in BOOLEAN
    /\ \E T \in trees :
          /\ dirs = {Root, hNode} \cup T.d
          /\ files = {haNode} \cup T.f
    /\ handles = <<>>
    /\ cA = <<>> /\ cB = <<>> /\ cRes = NoRes /\ eqRes = NoRes

----------------------------------------------------------------------------
(* Specification of a client of directory_iterator: NumIters objects that  *)
(* are constructed, incremented, moved and destroyed in any order.         *)

Dead == [st |-> "dead"]
Obj(st, it) == [st |-> st, it |-> it]

OpenPaths == {<<"/", "t">>, <<".", "/", "t">>, <<"/", "t", "/", "a">>}

InitIter ==
    /\ InitFs(TreesUpTo(1))
    /\ its = [i \in 1..NumIters |-> Dead]
    /\ NoCall

\* directory_iterator it;
ItDefault(i) ==
    /\ its[i] = Dead
    /\ its' = [its EXCEPT ![i] = Obj("live", ItEnd)]
    /\ UNCHANGED <<cwd, cwdOK, pathVars, fsVars, handles, raVars>>

\* directory_iterator it(p);  with opendir succeeding
ItConstruct(i) ==
    /\ its[i] = Dead
    /\ Len(handles) < MaxHandles
    /\ \E s \in OpenPaths :
          /\ is_directory(s)
          /\ \E e \in OpenChoices(s) :
                LET r == ItOpen(s, handles, e)
                IN  /\ its' = [its EXCEPT ![i] = Obj("live", r.it)]
                    /\ handles' = r.hs
    /\ UNCHANGED <<cwd, cwdOK, pathVars, fsVars, raVars>>

\* ++it;
ItIncrement(i) ==
    /\ its[i] # Dead
    /\ \E e \in IncrChoices(its[i].it, handles) :
          LET r == ItIncr(its[i].it, handles, e)
          IN  /\ its' = [its EXCEPT ![i].it = r.it]
              /\ handles' = r.hs
    /\ UNCHANGED <<cwd, cwdOK, pathVars, fsVars, raVars>>

\* directory_iterator dst(std::move(src));
ItMoveConstruct(dst, src) ==
    /\ its[dst] = Dead /\ its[src] # Dead
    /\ LET r == ItMoveCtor(its[src].it)
       IN  its' = [its EXCEPT ![dst] = Obj(its[src].st, r.dst),
                              ![src] = Obj("moved", r.src)]
    /\ UNCHANGED <<cwd, cwdOK, pathVars, fsVars, handles, raVars>>

\* dst = std::move(src);
ItMoveAssignTo(dst, src) ==
    /\ dst # src /\ its[dst] # Dead /\ its[src] # Dead
    /\ LET r == ItMoveAssign(its[dst].it, its[src].it)
       IN  its' = [its EXCEPT ![dst] = Obj(its[src].st, r.dst),
                              ![src] = Obj("moved", r.src)]
    /\ UNCHANGED <<cwd, cwdOK, pathVars, fsVars, handles, raVars>>

\* the object's lifetime ends
ItDestroy(i) ==
    /\ its[i] # Dead
    /\ handles' = ItDtor(its[i].it, handles)
    /\ its' = [its EXCEPT ![i] = Dead]
    /\ UNCHANGED <<cwd, cwdOK, pathVars, fsVars, raVars>>

NextIter ==
    \/ \E i \in 1..NumIters : ItDefault(i)
    \/ \E i \in 1..NumIters : ItConstruct(i)
    \/ \E i \in 1..NumIters : ItIncrement(i)
    \/ \E i, j \in 1..NumIters : ItMoveConstruct(i, j)
    \/ \E i, j \in 1..NumIters : ItMoveAssignTo(i, j)
    \/ \E i \in 1..NumIters : ItDestroy(i)

SpecIter == InitIter /\ [][NextIter]_vars

----------------------------------------------------------------------------
(* Single-entry removal on the host.  ok is the host's verdict apart from  *)
(* what the model decides itself: a missing entry and a directory that is  *)
(* not empty always fail.                                                  *)

LogEntry(s, call, done) ==
    [s |-> s, node |-> Resolve(s), call |-> call, ok |-> done,
     empty |-> ChildNodes(Resolve(s)) = {}]

\* unlink(p) == 0
Unlink(s, ok) ==
    LET n == Resolve(s)
        done == ok /\ n \in files
    IN  [ok |-> done,
         dirs |-> dirs,
         files |-> IF done THEN files \ {n} ELSE files,
         entry |-> LogEntry(s, "unlink", done)]

\* rmdir(p) == 0
Rmdir(s, ok) ==
    LET n == Resolve(s)
        done == ok /\ n \in dirs /\ n # Root /\ ChildNodes(n) = {}
    IN  [ok |-> done,
         dirs |-> IF done THEN dirs \ {n} ELSE dirs,
         files |-> files,
         entry |-> LogEntry(s, "rmdir", done)]

\* remove(p)
Remove(s, ok) == IF is_directory(s) THEN Rmdir(s, ok) ELSE Unlink(s, ok)

----------------------------------------------------------------------------
(* remove_all *)

Frame(it, s) == [first |-> it, second |-> s]

\* a value-initialized std::pair<directory_iterator, Path>
DefaultFrame == Frame(ItEnd, <<>>)

\* a frame after std::move took its iterator and its path
MovedFrom(f) == Frame([f.first EXCEPT !.dir = 0, !.p = <<>>], <<>>)

\* ~vector: the destructor of every frame's iterator
RECURSIVE CloseAll(_, _)
CloseAll(hs, frames) ==
    IF frames = <<>> THEN hs
    ELSE CloseAll(ItDtor(frames[1].first, hs), Tail(frames))

Unwound == CloseAll(CloseAll(handles, dirstack), moredirs)

\* return res;  the locals dirstack and moredirs are destroyed
Return(res) ==
    /\ pc' = "done" /\ result' = res
    /\ handles' = Unwound /\ dirstack' = <<>> /\ moredirs' = <<>>
    /\ UNCHANGED exc

\* an exception leaves remove_all; the locals are destroyed on the way
Throw(cause) ==
    /\ pc' = "raised" /\ exc' = cause
    /\ handles' = Unwound /\ dirstack' = <<>> /\ moredirs' = <<>>
    /\ UNCHANGED result

\* a pseudo-entry test that compares the name with "." alone
IsPseudoEntry_dotOnly(p2, dir, ok) ==
    IF filename(p2) = Dot THEN "true" ELSE "false"

\* p2.filename() == "." || p2.filename() == ".."
IsPseudoEntry(p2, dir, ok) ==
    LET r == PathEq(filename(p2), Dot, dir, ok)
    IN  IF r # "false" THEN r ELSE PathEq(filename(p2), DotDot, dir, ok)

\* a failed removal of a leaf that is passed over
AfterLeafRemove_ignored(removed) == "next"

\* if(!remove(p2)) return false;
AfterLeafRemove(removed) == IF removed THEN "next" ELSE "return_false"

\* ++dir.first on the top frame, the streams being hs
Advance(hs) ==
    LET top == dirstack[Len(dirstack)]
    IN  \E e \in IncrChoices(top.first, hs) :
           LET r == ItIncr(top.first, hs, e)
           IN  /\ dirstack' = [dirstack EXCEPT ![Len(dirstack)].first = r.it]
               /\ handles' = r.hs
               /\ pc' = "for"
               /\ UNCHANGED <<result, exc>>

\* lines 253-260: a non-directory is unlinked; else the first frame is pushed
RA_Enter ==
    /\ pc = "start"
    /\ UNCHANGED <<cwd, cwdOK, pathVars, hostDots, its, argp, skipped>>
    /\ \/ /\ ~is_directory(argp)
          /\ \E ok \in BOOLEAN :
                LET r == Unlink(argp, ok)
                IN  /\ files' = r.files /\ dirs' = r.dirs
                    /\ log' = Append(log, r.entry)
                    /\ Return(r.ok)
       \/ /\ is_directory(argp)
          /\ \/ /\ Throw("opendir")
                /\ UNCHANGED <<dirs, files, log>>
             \/ \E e \in OpenChoices(argp) :
                   LET r == ItOpen(argp, handles, e)
                   IN  /\ handles' = r.hs
                       /\ dirstack' = <<Frame(r.it, argp)>>
                       /\ pc' = "loop"
                       /\ UNCHANGED <<moredirs, result, exc, dirs, files, log>>

\* lines 262-264 and 286: the loop test, and the return after the loop
RA_While ==
    /\ pc = "loop"
    /\ UNCHANGED <<cwd, cwdOK, pathVars, fsVars, its, argp, log, skipped>>
    /\ IF Len(dirstack) > 0
       THEN /\ pc' = "for"
            /\ UNCHANGED <<handles, dirstack, moredirs, result, exc>>
       ELSE Return(TRUE)

\* lines 267-275: the body of the for loop on the entry the top frame is at,
\* and the ++dir.first that follows it
RA_Body ==
    LET top == dirstack[Len(dirstack)]
        p2  == ItDeref(top.first)
        ps  == IsPseudoEntry(p2, cwd, cwdOK)
    IN  \/ /\ ps = "throw"
           /\ Throw("getcwd")
           /\ UNCHANGED <<dirs, files, log, skipped>>
        \/ /\ ps = "hang"
           /\ pc' = "hang"
           /\ UNCHANGED <<dirs, files, log, skipped, handles, dirstack,
                          moredirs, result, exc>>
        \/ /\ ps = "true"
           /\ skipped' = skipped \cup {p2}
           /\ Advance(handles)
           /\ UNCHANGED <<dirs, files, log, moredirs>>
        \/ /\ ps = "false" /\ is_directory(p2)
           /\ UNCHANGED <<dirs, files, log, skipped>>
           /\ \/ Throw("opendir")
              \/ \E e \in OpenChoices(p2) :
                    LET r == ItOpen(p2, handles, e)
                    IN  /\ moredirs' = Append(moredirs, Frame(r.it, p2))
                        /\ Advance(r.hs)
        \/ /\ ps = "false" /\ ~is_directory(p2)
           /\ UNCHANGED skipped
           /\ \E ok \in BOOLEAN :
                 LET r == Remove(p2, ok)
                 IN  /\ files' = r.files /\ dirs' = r.dirs
                     /\ log' = Append(log, r.entry)
                     /\ IF AfterLeafRemove(r.ok) = "return_false"
                        THEN Return(FALSE)
                        ELSE Advance(handles) /\ UNCHANGED moredirs

\* line 266: dir.first != end_it, then the body
RA_For ==
    /\ pc = "for"
    /\ UNCHANGED <<cwd, cwdOK, pathVars, hostDots, its, argp>>
    /\ LET top == dirstack[Len(dirstack)]
           cmp == ItEq(top.first, ItEnd, cwd, cwdOK)
       IN  \/ /\ cmp = "throw"
              /\ Throw("getcwd")
              /\ UNCHANGED <<dirs, files, log, skipped>>
           \/ /\ cmp = "hang"
              /\ pc' = "hang"
              /\ UNCHANGED <<dirs, files, log, skipped, handles, dirstack,
                             moredirs, result, exc>>
           \/ /\ cmp = "true"
              /\ pc' = "after"
              /\ UNCHANGED <<dirs, files, log, skipped, handles, dirstack,
                             moredirs, result, exc>>
           \/ /\ cmp = "false"
              /\ RA_Body

\* lines 278-284.  With nothing queued the frame's directory is removed (the
\* result of remove is dropped) and the frame popped.  Otherwise dirstack
\* grows by moredirs.size() value-initialized frames, and std::move writes
\* the queued frames to begin(dirstack) + dirstack.size(), which is end():
\* every frame lands beyond the end of the vector.  That is undefined
\* behaviour: the build either faults on the write, or goes on with the
\* queued frames lost, their streams owned by no object.  moredirs is not
\* cleared.  resize throws once the memory is used up.
RA_After ==
    /\ pc = "after"
    /\ UNCHANGED <<cwd, cwdOK, pathVars, hostDots, its, argp, skipped>>
    /\ LET top == dirstack[Len(dirstack)]
           n   == Len(moredirs)
       IN  \/ /\ moredirs = <<>>
              /\ \E ok \in BOOLEAN :
                    LET r == Remove(top.second, ok)
                    IN  /\ files' = r.files /\ dirs' = r.dirs
                        /\ log' = Append(log, r.entry)
              /\ dirstack' = SubSeq(dirstack, 1, Len(dirstack) - 1)
              /\ handles' = ItDtor(top.first, handles)
              /\ pc' = "loop"
              /\ UNCHANGED <<moredirs, result, exc>>
           \/ /\ moredirs # <<>>
              /\ Len(dirstack) + n > MaxFrames
              /\ Throw("alloc")
              /\ UNCHANGED <<dirs, files, log>>
           \/ /\ moredirs # <<>>
              /\ Len(dirstack) + n <= MaxFrames
              /\ dirstack' = dirstack \o [i \in 1..n |-> DefaultFrame]
              /\ UNCHANGED <<dirs, files, log, handles, result, exc>>
              /\ \/ /\ pc' = "crashed"
                    /\ UNCHANGED moredirs
                 \/ /\ pc' = "loop"
                    /\ moredirs' = [i \in 1..n |-> MovedFrom(moredirs[i])]

ArgPaths == {<<"/", "t">>, <<".", "/", "t">>}

\* the entry t as a regular file
FileTree == [d |-> {}, f |-> {tNode}]

Init ==
    /\ InitFs(TreesUpTo(MaxEntries) \cup {FileTree})
    /\ its = <<>>
    /\ argp \in ArgPaths
    /\ pc = "start"
    /\ dirstack = <<>> /\ moredirs = <<>>
    /\ result = FALSE /\ exc = "none"
    /\ log = <<>> /\ skipped = {}

Next == RA_Enter \/ RA_While \/ RA_For \/ RA_After

Spec == Init /\ [][Next]_vars

----------------------------------------------------------------------------
(* Properties *)

IsPrefix(a, s) == Len(a) <= Len(s) /\ SubSeq(s, 1, Len(a)) = a

NoDotSegs(s) == \A i \in DOMAIN Split(s) : Split(s)[i] \notin {Dot, DotDot}

IsAbsolute(s) == Len(s) > 0 /\ s[1] = "/"

\* the ".." segments of s never climb above the root
RECURSIVE NoClimbFrom(_, _)
NoClimbFrom(segs, depth) ==
    IF segs = <<>> THEN TRUE
    ELSE IF segs[1] = Dot THEN NoClimbFrom(Tail(segs), depth)
    ELSE IF segs[1] = DotDot
        THEN depth > 0 /\ NoClimbFrom(Tail(segs), depth - 1)
    ELSE NoClimbFrom(Tail(segs), depth + 1)

NoClimb(s) == NoClimbFrom(Split(s), 0)

\* the node the argument of remove_all names when the call starts
ArgNode ==
    IF IsAbsolute(argp) \/ cwd = <<"/">> THEN tNode ELSE Append(hNode, <<"t">>)

IsUnder(n, top) == IsPrefix(top, n)

\* s is the path p of the call, or p followed by ordinary names
BeneathArg(s) ==
    /\ IsPrefix(argp, s)
    /\ LET rest == SubSeq(s, Len(argp) + 1, Len(s))
       IN  /\ rest # <<>> => rest[1] = "/"
           /\ NoDotSegs(rest)

\* C1 (as claimed): when every deletion succeeds, remove_all(p) ends by
\* returning success, and then neither p nor any entry beneath it exists.
\* Stated for an absolute p, a working directory that can be read and
\* directories that can be opened.
C1_RemoveAllDeletesTree ==
    (/\ pc \in {"done", "raised", "crashed", "hang"}
     /\ argp = <<"/", "t">> /\ cwdOK /\ exc # "opendir"
     /\ \A i \in DOMAIN log : log[i].ok)
    => (/\ pc = "done" /\ result = TRUE
        /\ \A n \in dirs \cup files : ~IsUnder(n, tNode))

\* C2 (as claimed): with the working directory c, Path("./x") equals
\* Path(join(c, x)) for every plain name x.
C2_DotSlashEqualsAbsolute ==
    (/\ eqRes # NoRes /\ cwdOK
     /\ \E x \in Names : cA = <<".", "/">> \o x /\ cB = Join(cwd, x))
    => eqRes.kind = "true"

\* C3 (as claimed): for a path whose ".." segments never climb above the
\* root, canonical returns an absolute path without "." and ".." segments.
C3_CanonicalResolvesDots ==
    (/\ cRes # NoRes /\ cwdOK
     /\ NoClimb(complete(cA, cwd, cwdOK).s))
    => (/\ cRes.kind = "ok"
        /\ IsAbsolute(cRes.s)
        /\ NoDotSegs(cRes.s))

\* C4: a failed deletion of a non-directory entry is the last deletion
\* remove_all issues and makes it return false at once; the directories from
\* p down to the one holding the entry still exist, and what was deleted
\* before stays deleted.
C4_LeafFailureStops ==
    \A i \in DOMAIN log :
        (log[i].call = "unlink" /\ ~log[i].ok) =>
            /\ i = Len(log)
            /\ pc = "done" /\ result = FALSE
            /\ \A k \in Len(ArgNode)..(Len(log[i].node) - 1) :
                  SubSeq(log[i].node, 1, k) \in dirs
            /\ \A k \in 1..(i - 1) :
                  log[k].ok => log[k].node \notin dirs \cup files

\* C4 witness: inside the directory p, an entry was deleted and the next
\* deletion failed
C4_Witness ==
    /\ pc = "done" /\ Len(log) >= 2
    /\ log[1].ok /\ ~log[Len(log)].ok
    /\ log[Len(log)].call = "unlink"
    /\ log[Len(log)].node \in files
    /\ Len(log[Len(log)].node) > Len(ArgNode)

\* C5 (as claimed): remove_all returns false when any removal it issued
\* failed, that of a directory included; so after it returned true p does
\* not exist.
C5_EveryFailurePropagates ==
    pc = "done" =>
        /\ (\E i \in DOMAIN log : ~log[i].ok) => result = FALSE
        /\ result = TRUE => ~exists(argp)

\* C6 (as claimed): remove_all never ends by an exception.
C6_NeverRaises == pc # "raised"

\* C7 (as claimed): no directory handle is closed twice, at most one
\* iterator owns a handle, and once every iterator is exhausted or destroyed
\* every handle that was opened has been closed exactly once.
C7_HandlesClosedExactlyOnce ==
    /\ \A h \in DOMAIN handles :
          /\ handles[h].closes <= 1
          /\ Cardinality({i \in DOMAIN its :
                             its[i] # Dead /\ its[i].it.dir = h}) <= 1
    /\ (\A i \in DOMAIN its : its[i] = Dead \/ its[i].it.dir = 0)
          => \A h \in DOMAIN handles : handles[h].closes = 1

\* C8 (as claimed): an iterator that was constructed on a directory and not
\* moved from compares equal to a default-constructed one exactly when its
\* stream is exhausted (the handle then closed), and an iterator on an empty
\* directory is at the end sentinel from its construction on.  Stated for a
\* working directory that can be read.
C8_EndSentinelOnExhaustion ==
    \A i \in DOMAIN its :
        (its[i] # Dead /\ its[i].st = "live" /\ its[i].it.p # <<>> /\ cwdOK) =>
            LET it == its[i].it
                eq == ItEq(it, ItEnd, cwd, cwdOK)
            IN  /\ it.dir = 0 => eq = "true"
                /\ it.dir # 0 =>
                      /\ eq = "false"
                      /\ it.dp # NullDp
                      /\ handles[it.dir].closes = 0
                /\ ChildNodes(Resolve(it.p)) = {} => eq = "true"

\* C9 (as claimed): a directory is removed only once it has no child, and
\* after a pass the queued subdirectory frames are the frames on top of the
\* stack, the queue being empty again when the loop is re-entered.
C9_QueuedFramesArePushed ==
    /\ \A i \in DOMAIN log : log[i].call = "rmdir" => log[i].empty
    /\ pc = "loop" =>
          /\ moredirs = <<>>
          /\ \A k \in DOMAIN dirstack :
                /\ is_directory(dirstack[k].second)
                /\ dirstack[k].first.p = dirstack[k].second

\* C10: every unlink and rmdir remove_all issues names p or an entry reached
\* from p through ordinary names; no "." or ".." entry is queued as a frame;
\* only "." and ".." are skipped by the name test; the entries outside p are
\* all still there.
C10_OnlyTheSubtreeChanges ==
    /\ \A i \in DOMAIN log :
          BeneathArg(log[i].s) /\ IsUnder(log[i].node, ArgNode)
    /\ \A k \in DOMAIN dirstack :
          dirstack[k].second # <<>> => BeneathArg(dirstack[k].second)
    /\ \A k \in DOMAIN moredirs :
          moredirs[k].second # <<>> => BeneathArg(moredirs[k].second)
    /\ \A s \in skipped : filename(s) \in {Dot, DotDot}
    /\ {Root, hNode} \subseteq dirs /\ haNode \in files
    /\ ArgNode # tNode => tNode \in dirs \cup files

\* C10 witness: the pseudo-entries were skipped, the entries named "..." and
\* ".a" were deleted, and remove_all returned
C10_Witness ==
    /\ pc = "done" /\ result = TRUE
    /\ \E s \in skipped : filename(s) = Dot
    /\ \E s \in skipped : filename(s) = DotDot
    /\ \E i \in DOMAIN log : log[i].ok /\ filename(log[i].s) = <<".", ".", ".">>
    /\ \E i \in DOMAIN log : log[i].ok /\ filename(log[i].s) = <<".", "a">>
    /\ ArgNode \notin dirs

====
